---- MODULE Spec2Model ----
(***************************************************************************)
(* Link lifecycle and delivery layer of azure-service-bus-node.            *)
(*                                                                         *)
(* Spec     : one MessageSender instance (src/lib/index.ts) used by a      *)
(*            bounded number of send / sendBatch / close calls, with the   *)
(*            AMQP link, the initialization lock and the retry helper as   *)
(*            its environment.                                             *)
(* SpecRecv : the receive calls on one SubscriptionClient                  *)
(*            (src/lib/subscriptionClient.ts), with the streaming          *)
(*            receivers as environment.                                    *)
(* SpecBatch: the receiveBatch calls on one SubscriptionClient, with the   *)
(*            batching receivers as environment.                           *)
(*                                                                         *)
(* SpecTopic: the send / sendBatch / close calls on one TopicClient        *)
(*            (src/lib/index.ts), with the MessageSender instances it      *)
(*            makes reduced to their link reference and their _init.       *)
(*                                                                         *)
(* The program runs on one event loop: every action below is one run of    *)
(* code between two suspension points (await, event callback).             *)
(***************************************************************************)
EXTENDS Integers, FiniteSets, Sequences, TLC

\* ------------------------------------------------------------------ bounds
MaxCalls == 2       \* calls in progress on the sender at one time
MaxLinks == 2       \* links in use at one time
RetryTimes == 2     \* attempts the retry helper makes
MaxReceivers == 3   \* receivers of one kind created by one client
MaxBatchCalls == 2  \* receiveBatch calls in progress at one time
MaxMessages == 2    \* messages a receiver takes from its link
MaxSenders == 3     \* MessageSender instances one TopicClient makes
MaxCloses == 2      \* close calls in progress on one MessageSender instance
MaxBatch == 2       \* messages in the list given to sendBatch
MaxOption == 2      \* largest maxConcurrentCalls a client is configured with

Calls == 1..MaxCalls
Links == 1..MaxLinks
Keys == 0..MaxCalls
Receivers == 1..MaxReceivers
BatchCalls == 1..MaxBatchCalls
Senders == 1..MaxSenders

\* SenderEvents.accepted / rejected / released / modified
SenderEvents == {"accepted", "rejected", "released", "modified"}

VARIABLES
  sender,             \* MessageSender._sender: 0 is undefined, else the link
  ctxSender,          \* _context.sender refers to this instance
  linkState,          \* link -> "closed" | "open" | "closing"
  handlers,           \* link -> set of <<call, event>> registered on it
  outstanding,        \* link -> deliveries sent on it and not yet settled
  timers,             \* a renewal timer is pending whose handle the sender
                      \* holds no more
  tokenRenewalTimer,  \* LinkEntity._tokenRenewalTimer refers to a pending timer
  lockInit,           \* lock key -> position of the _init running under it
  pc,                 \* call -> position of the call
  outcome,            \* call -> state of the call's promise
  retries,            \* call -> attempts the retry helper has made
  callLink,           \* call -> the link the call acted on
  hist,               \* call -> history of the call (observation only)
  prevClose,          \* what the last close did, when it ran with no other call
                      \* in progress and no send was called since (observation only)
  afterClose          \* a close has resolved and no send was called since
                      \* (observation only)

VARIABLES
  streamingReceiver,    \* _context.streamingReceiver: 0 is undefined
  batchingReceiver,     \* _context.batchingReceiver: 0 is undefined
  streamingLink,        \* streaming receiver -> "none" | "opening" | "open" | "closed"
  batchingLink,         \* batching receiver -> "none" | "opening" | "open" | "closed"
  isReceivingMessages,  \* batching receiver -> BatchingReceiver.isReceivingMessages
  stopped,              \* streaming receiver -> stop() of its handle was invoked
  delivered,            \* streaming receiver -> messages passed to its onMessage
  buffered,             \* batching receiver -> messages in its buffer
  lastReceive,          \* the last receive call (observation only)
  batchPc,              \* receiveBatch call -> position of the call
  batchOutcome,         \* receiveBatch call -> state of the call's promise
  batchReceiver,        \* receiveBatch call -> the receiver it created
  batchHist,            \* receiveBatch call -> history of the call (observation only)
  clientOptions,        \* the options the SubscriptionClient was constructed with
  maxConcurrentCalls,   \* SubscriptionClient.maxConcurrentCalls
  receiverCalls,        \* streaming receiver -> maxConcurrentCalls of its options
  inFlight,             \* streaming receiver -> onMessage invocations not yet completed
  wanted,               \* batching receiver -> message count its receive was given
  batchResult           \* receiveBatch call -> number of messages it returned

senderVars == <<sender, ctxSender, linkState, handlers, outstanding, timers,
                tokenRenewalTimer, lockInit, pc, outcome, retries, callLink, hist,
                prevClose, afterClose>>

concurrencyVars == <<clientOptions, maxConcurrentCalls, receiverCalls, inFlight>>

pullVars == <<wanted, batchResult>>

recvVars == <<streamingReceiver, batchingReceiver, streamingLink, batchingLink,
              isReceivingMessages, stopped, delivered, buffered, lastReceive,
              batchPc, batchOutcome, batchReceiver, batchHist, concurrencyVars, pullVars>>

VARIABLES
  contextSender,   \* _context.sender of the TopicClient: 0 is undefined
  made,            \* MessageSender instances constructed so far
  instLink,        \* instance -> its _sender: "none" | "open" | "closing"
  instInit,        \* instance -> its _init runs (under its senderLock)
  closePending,    \* instance -> close calls that await the close of its link
  lastUse,         \* the instances the last two sends used (observation only)
  lastWrite        \* the last write to _context.sender (observation only)

topicVars == <<contextSender, made, instLink, instInit, closePending, lastUse, lastWrite>>

VARIABLES
  datas,           \* the messages given to sendBatch, as AMQP messages
  envelope         \* batchMessage: the envelope sendBatch built from them

envelopeVars == <<datas, envelope>>

VARIABLES
  managementSession,  \* _context.managementSession: "open" | "closed"
  closeCall           \* the SubscriptionClient.close call: its position, what it
                      \* found and what it closed (observation only but for pc)

closeVars == <<managementSession, closeCall>>

vars == <<senderVars, recvVars, topicVars, envelopeVars, closeVars>>

\* what the actions on the sender, on the receivers and on the TopicClient
\* leave alone
notSenderVars == <<recvVars, topicVars, envelopeVars, closeVars>>
notRecvVars == <<senderVars, topicVars, envelopeVars, closeVars>>
notTopicVars == <<senderVars, recvVars, envelopeVars, closeVars>>
notEnvelopeVars == <<senderVars, recvVars, topicVars, closeVars>>
notCloseVars == <<senderVars, topicVars, envelopeVars>>

NoClose == [pc |-> "idle", outcome |-> "none", open |-> FALSE, streaming |-> 0,
            batching |-> 0, session |-> "none", log |-> <<>>]

NoEnvelope == [built |-> FALSE, body |-> <<>>, message_annotations |-> "undefined",
               application_properties |-> "undefined", group_sequence |-> "undefined"]

NoUse == [prev |-> 0, now |-> 0]

NoWrite == [kind |-> "none", old |-> 0, locked |-> FALSE]

NoReceive == [result |-> "none", live |-> FALSE, before |-> 0, after |-> 0]

NoBatchHist == [inFlight |-> FALSE, before |-> 0, after |-> 0, asked |-> 0,
                deadline |-> FALSE]

NoHist == [regs |-> 0, fired |-> 0, execs |-> 0, credit |-> "none",
           own |-> FALSE, clears |-> 0, changed |-> FALSE, after |-> "none",
           ev |-> "none", remote |-> FALSE, by |-> 0, at |-> "none",
           valid |-> "none"]

\* SubscriptionClientOptions: 0 stands for an absent maxConcurrentCalls
SubscriptionClientOptions == [maxConcurrentCalls : 0..MaxOption]

\* constructor: this.maxConcurrentCalls = options.maxConcurrentCalls || 1
configuredCalls(options) ==
  IF options.maxConcurrentCalls = 0 THEN 1 ELSE options.maxConcurrentCalls

\* the state after construction, but for the options of the SubscriptionClient
\* and the argument of sendBatch
InitCalls ==
  /\ sender = 0
  /\ ctxSender = TRUE
  /\ linkState = [l \in Links |-> "closed"]
  /\ handlers = [l \in Links |-> {}]
  /\ outstanding = [l \in Links |-> {}]
  /\ timers = FALSE
  /\ tokenRenewalTimer = FALSE
  /\ lockInit = [k \in Keys |-> "none"]
  /\ pc = [c \in Calls |-> "idle"]
  /\ outcome = [c \in Calls |-> "none"]
  /\ retries = [c \in Calls |-> 0]
  /\ callLink = [c \in Calls |-> 0]
  /\ hist = [c \in Calls |-> NoHist]
  /\ prevClose = "none"
  /\ afterClose = FALSE
  /\ streamingReceiver = 0
  /\ batchingReceiver = 0
  /\ streamingLink = [r \in Receivers |-> "none"]
  /\ batchingLink = [r \in Receivers |-> "none"]
  /\ isReceivingMessages = [r \in Receivers |-> FALSE]
  /\ stopped = [r \in Receivers |-> FALSE]
  /\ delivered = [r \in Receivers |-> 0]
  /\ buffered = [r \in Receivers |-> 0]
  /\ lastReceive = NoReceive
  /\ batchPc = [c \in BatchCalls |-> "idle"]
  /\ batchOutcome = [c \in BatchCalls |-> "none"]
  /\ batchReceiver = [c \in BatchCalls |-> 0]
  /\ batchHist = [c \in BatchCalls |-> NoBatchHist]
  /\ contextSender = 0
  /\ made = 0
  /\ instLink = [i \in Senders |-> "none"]
  /\ instInit = [i \in Senders |-> FALSE]
  /\ closePending = [i \in Senders |-> 0]
  /\ lastUse = NoUse
  /\ lastWrite = NoWrite
  /\ receiverCalls = [r \in Receivers |-> 0]
  /\ inFlight = [r \in Receivers |-> 0]
  /\ wanted = [r \in Receivers |-> 0]
  /\ batchResult = [c \in BatchCalls |-> 0]
  /\ managementSession = "open"
  /\ closeCall = NoClose

\* a SubscriptionClient constructed with the given options
InitClient(options) ==
  /\ clientOptions = options
  /\ maxConcurrentCalls = configuredCalls(options)

Init ==
  /\ InitCalls
  /\ InitClient([maxConcurrentCalls |-> 0])
  /\ datas = <<>>
  /\ envelope = NoEnvelope

\* ------------------------------------------------------- helpers of the model
\* No ended call waits for its caller to take the result: the continuation of a
\* settled promise runs before the event loop takes the next event.
Running == \A c \in Calls : pc[c] # "done"

\* A slot is free when no call is in progress in it and no link refers to it.
Free(c) ==
  /\ pc[c] = "idle"
  /\ \A l \in Links : c \notin outstanding[l] /\ \A e \in SenderEvents : <<c, e>> \notin handlers[l]

\* A new call takes the first free slot.
Startable(c) == Free(c) /\ \A d \in Calls : d < c => ~Free(d)


\* A link is in use while it is not closed or something still refers to it.
Referenced(l) == sender = l \/ \E c \in Calls : callLink[c] = l
FreeLinks == {l \in Links : linkState[l] = "closed" /\ ~Referenced(l)}
UsedLinks == Links \ FreeLinks
PendingTimers == tokenRenewalTimer \/ timers
OpenLinks == {l \in Links : linkState[l] = "open"}
RunningInits == {k \in Keys : lockInit[k] # "none"}
NextLink == CHOOSE l \in FreeLinks : \A m \in FreeLinks : l <= m

\* a lock name made anew by every call
senderLockPerCall(c) == c

\* MessageSender.senderLock: one lock name for the instance, whoever calls.
senderLock(c) == 0

Waiters(k) == {c \in Calls : pc[c] = "lockWait" /\ senderLock(c) = k}

\* MessageSender._isOpen
isOpen == sender # 0 /\ linkState[sender] = "open"

\* _trySend: the four registerHandler calls on the link
registerHandlers(hs, c) == hs \cup {<<c, e>> : e \in SenderEvents}

\* _trySend: removeListeners
removeListeners(hs, c) == hs \ {<<c, e>> : e \in SenderEvents}

\* handlers that never look at the error the remote reported
DispositionErrorSynthetic(ev, remoteError) ==
  IF ev = "rejected" THEN "remoteError"
  ELSE IF ev = "released" THEN "releasedError" ELSE "modifiedError"

\* the error a disposition rejects the promise with
DispositionError(ev, remoteError) ==
  IF ev = "rejected" \/ remoteError THEN "remoteError"
  ELSE IF ev = "released" THEN "releasedError" ELSE "modifiedError"

\* retry(() => sendEventPromise): position after the promise turned out rejected
\* on attempt number n
AfterFailedAttempt(n) == IF n >= RetryTimes THEN "done" ELSE "retry"

\* a link that always claims to be sendable
sendableAlways(credit) == TRUE

\* this._sender!.sendable(), credit being whether the link holds credit
sendable(credit) == credit

\* ------------------------------------------------------------ _trySend
\* The promise executor of _trySend and the first attempt of retry, run by
\* call c with history h; credit is what sendable() answers.
trySend(c, credit, h) ==
  IF sender = 0
  THEN \* this._sender!.credit of an undefined _sender throws in the executor
       /\ outcome' = [outcome EXCEPT ![c] = "TypeError"]
       /\ pc' = [pc EXCEPT ![c] = AfterFailedAttempt(1)]
       /\ retries' = [retries EXCEPT ![c] = 1]
       /\ callLink' = [callLink EXCEPT ![c] = 0]
       /\ hist' = [hist EXCEPT ![c] = [h EXCEPT !.execs = @ + 1, !.at = "unset"]]
       /\ UNCHANGED <<handlers, outstanding>>
  ELSE IF sendable(credit)
  THEN /\ handlers' = [handlers EXCEPT ![sender] = registerHandlers(@, c)]
       /\ outstanding' = [outstanding EXCEPT ![sender] = @ \cup {c}]
       /\ outcome' = [outcome EXCEPT ![c] = "pending"]
       /\ pc' = [pc EXCEPT ![c] = "awaitDisposition"]
       /\ retries' = [retries EXCEPT ![c] = 1]
       /\ callLink' = [callLink EXCEPT ![c] = sender]
       /\ hist' = [hist EXCEPT ![c] = [h EXCEPT !.execs = @ + 1, !.regs = @ + 1,
                                                !.credit = IF credit THEN "yes" ELSE "no",
                                                !.at = linkState[sender]]]
  ELSE /\ outcome' = [outcome EXCEPT ![c] = "tryLater"]
       /\ pc' = [pc EXCEPT ![c] = AfterFailedAttempt(1)]
       /\ retries' = [retries EXCEPT ![c] = 1]
       /\ callLink' = [callLink EXCEPT ![c] = 0]
       /\ hist' = [hist EXCEPT ![c] = [h EXCEPT !.execs = @ + 1,
                                                !.credit = IF credit THEN "yes" ELSE "no",
                                                !.at = linkState[sender]]]
       /\ UNCHANGED <<handlers, outstanding>>

\* ------------------------------------------------------ send / sendBatch
\* _init up to its first await: the position it reaches
initEntry == IF ~isOpen THEN "negotiating" ELSE "none"

\* defaultLock.acquire(this.senderLock, () => this._init()) as called by c:
\* the initializer starts when none runs under the key, otherwise the call
\* awaits the result of the one that runs.
acquire(c, h) ==
  LET k == senderLock(c)
      starts == lockInit[k] = "none"
      entry == IF starts THEN initEntry ELSE lockInit[k]
  IN /\ starts => Cardinality(UsedLinks) + Cardinality(RunningInits) < MaxLinks
     /\ lockInit' = [lockInit EXCEPT ![k] = entry]
     /\ pc' = [pc EXCEPT ![c] = IF entry = "none" THEN "ready" ELSE "lockWait"]
     /\ hist' = [hist EXCEPT ![c] = h]
     /\ outcome' = [outcome EXCEPT ![c] = "none"]
     /\ retries' = [retries EXCEPT ![c] = 0]
     /\ callLink' = [callLink EXCEPT ![c] = 0]
     /\ UNCHANGED <<handlers, outstanding>>

\* a send that goes on whatever its argument is
dataUnchecked(valid) == TRUE

\* send / sendBatch: the check of the argument, valid being whether data is an
\* object (send) or an array (sendBatch)
dataChecked(valid) == valid

\* MessageSender.send and MessageSender.sendBatch up to their first await;
\* valid is the outcome of the check of the argument.
sendCall(c, valid, credit) ==
  /\ Running
  /\ UNCHANGED notSenderVars
  /\ Startable(c)
  /\ LET h == [NoHist EXCEPT !.valid = IF valid THEN "yes" ELSE "no"]
     IN IF ~dataChecked(valid)
        THEN /\ pc' = [pc EXCEPT ![c] = "done"]
             /\ outcome' = [outcome EXCEPT ![c] = "dataError"]
             /\ hist' = [hist EXCEPT ![c] = h]
             /\ retries' = [retries EXCEPT ![c] = 0]
             /\ callLink' = [callLink EXCEPT ![c] = 0]
             /\ UNCHANGED <<lockInit, handlers, outstanding>>
        ELSE IF ~isOpen
        THEN acquire(c, h)
        ELSE /\ trySend(c, credit, h)
             /\ UNCHANGED lockInit
  /\ prevClose' = "none"
  /\ afterClose' = FALSE
  /\ UNCHANGED <<sender, ctxSender, linkState, timers, tokenRenewalTimer>>

send(c, valid, credit) == sendCall(c, valid, credit)

sendBatch(c, valid, credit) == sendCall(c, valid, credit)

\* send / sendBatch after "await defaultLock.acquire(...)" resolved
sendResume(c, credit) ==
  /\ Running
  /\ UNCHANGED notSenderVars
  /\ pc[c] = "ready"
  /\ trySend(c, credit, hist[c])
  /\ UNCHANGED <<sender, ctxSender, linkState, timers, tokenRenewalTimer, lockInit,
                 prevClose, afterClose>>

\* --------------------------------------------------------------- _init
\* a send that swallows the error of the initialization and goes on
goesOnAfterInitError == "ready"

\* send / sendBatch when "await defaultLock.acquire(...)" rejects: the catch
\* block rethrows, the call ends
afterInitError == "done"

\* the initializer under key k fails: the lock hands the error to every waiter
initFails(k) ==
  /\ lockInit' = [lockInit EXCEPT ![k] = "none"]
  /\ pc' = [c \in Calls |-> IF c \in Waiters(k) THEN afterInitError ELSE pc[c]]
  /\ outcome' = [c \in Calls |-> IF c \in Waiters(k) THEN "initError" ELSE outcome[c]]
  /\ UNCHANGED <<sender, ctxSender, linkState, timers, tokenRenewalTimer, hist>>

\* "await this._negotiateClaim()" of _init ends; on success createSender is called
negotiateClaimDone(k, ok) ==
  /\ Running
  /\ UNCHANGED notSenderVars
  /\ lockInit[k] = "negotiating"
  /\ IF ok
     THEN /\ lockInit' = [lockInit EXCEPT ![k] = "creating"]
          /\ UNCHANGED <<sender, ctxSender, linkState, timers, tokenRenewalTimer,
                         pc, outcome, hist>>
     ELSE initFails(k)
  /\ UNCHANGED <<handlers, outstanding, retries, callLink, prevClose, afterClose>>

\* "await connection.createSender(options)" of _init ends; on success the rest
\* of _init runs and the lock hands the result to every waiter
createSenderDone(k, ok) ==
  /\ Running
  /\ UNCHANGED notSenderVars
  /\ lockInit[k] = "creating"
  /\ IF ok
     THEN LET l == NextLink
          IN /\ FreeLinks # {}
             /\ linkState' = [linkState EXCEPT ![l] = "open"]
             /\ sender' = l
             /\ ctxSender' = (IF ~ctxSender THEN TRUE ELSE ctxSender)
             /\ timers' = (timers \/ tokenRenewalTimer)
             /\ tokenRenewalTimer' = TRUE
             /\ lockInit' = [lockInit EXCEPT ![k] = "none"]
             /\ pc' = [c \in Calls |-> IF c \in Waiters(k) THEN "ready" ELSE pc[c]]
             /\ UNCHANGED <<outcome, hist>>
     ELSE initFails(k)
  /\ UNCHANGED <<handlers, outstanding, retries, callLink, prevClose, afterClose>>

\* --------------------------------------------------------- dispositions
\* The link l emits event ev for delivery d: every handler registered on l for
\* ev runs. A handler first runs removeListeners on this._sender (which throws
\* when _sender is undefined) and then settles the promise of its call.
disposition(l, d, ev, remoteError) ==
  /\ Running
  /\ UNCHANGED notSenderVars
  /\ linkState[l] = "open"
  /\ d \in outstanding[l]
  /\ LET F == {c \in Calls : <<c, ev>> \in handlers[l]}
         res == IF ev = "accepted" THEN "accepted" ELSE DispositionError(ev, remoteError)
         S == IF sender = 0 THEN {} ELSE {c \in F : outcome[c] = "pending"}
     IN /\ outstanding' = [outstanding EXCEPT ![l] = @ \ {d}]
        /\ handlers' = IF sender = 0 THEN handlers
                       ELSE [handlers EXCEPT ![sender] =
                              {h \in @ : \A c \in F : h \in removeListeners(handlers[sender], c)}]
        /\ outcome' = [c \in Calls |-> IF c \in S THEN res ELSE outcome[c]]
        /\ pc' = [c \in Calls |->
             IF c \in S
             THEN (IF ev = "accepted" THEN "done" ELSE AfterFailedAttempt(retries[c]))
             ELSE pc[c]]
        /\ hist' = [c \in Calls |->
             IF c \in S
             THEN [hist[c] EXCEPT !.fired = @ + 1, !.ev = ev,
                                  !.remote = remoteError, !.by = d]
             ELSE IF c \in F THEN [hist[c] EXCEPT !.fired = @ + 1] ELSE hist[c]]
  /\ UNCHANGED <<sender, ctxSender, linkState, timers, tokenRenewalTimer, lockInit,
                 retries, callLink, prevClose, afterClose>>

\* ----------------------------------------------------------------- retry
\* retry(() => sendEventPromise) makes its next attempt: the operation hands
\* back the promise _trySend built before retry was called.
retry(c) ==
  /\ Running
  /\ UNCHANGED notSenderVars
  /\ pc[c] = "retry"
  /\ retries' = [retries EXCEPT ![c] = @ + 1]
  /\ pc' = [pc EXCEPT ![c] = AfterFailedAttempt(retries[c] + 1)]
  /\ UNCHANGED <<sender, ctxSender, linkState, handlers, outstanding, timers,
                 tokenRenewalTimer, lockInit, outcome, callLink, hist, prevClose, afterClose>>

\* ----------------------------------------------------------------- close
\* no call is in progress and no _init runs
Quiet == (\A d \in Calls : pc[d] = "idle") /\ RunningInits = {}

\* MessageSender.close up to "await this._sender.close()"
close(c) ==
  /\ Running
  /\ UNCHANGED notSenderVars
  /\ Startable(c)
  /\ LET h == [NoHist EXCEPT !.after = IF Quiet THEN prevClose ELSE "none"]
     IN IF sender = 0
        THEN /\ pc' = [pc EXCEPT ![c] = "done"]
             /\ outcome' = [outcome EXCEPT ![c] = "closed"]
             /\ hist' = [hist EXCEPT ![c] = h]
             /\ callLink' = [callLink EXCEPT ![c] = 0]
             /\ prevClose' = IF Quiet THEN "noop" ELSE "none"
             /\ afterClose' = TRUE
             /\ UNCHANGED linkState
        ELSE /\ pc' = [pc EXCEPT ![c] = "closing"]
             /\ outcome' = [outcome EXCEPT ![c] = "none"]
             /\ callLink' = [callLink EXCEPT ![c] = sender]
             /\ linkState' = [linkState EXCEPT ![sender] =
                                IF @ = "open" THEN "closing" ELSE @]
             /\ hist' = [hist EXCEPT ![c] = [h EXCEPT !.own = (linkState[sender] = "open")]]
             /\ prevClose' = IF Quiet THEN "closing" ELSE "none"
             /\ UNCHANGED afterClose
  /\ retries' = [retries EXCEPT ![c] = 0]
  /\ UNCHANGED <<sender, ctxSender, handlers, outstanding, timers, tokenRenewalTimer,
                 lockInit>>

\* a close that keeps its reference to the closed link
senderKept == sender

\* close: "this._sender = undefined"
senderAfterClose == 0

\* a close that drops its reference to the link also when the link close failed
senderCleared == senderAfterClose

\* close: the catch block rethrows and assigns nothing
senderAfterCloseError == sender

\* MessageSender.close after "await this._sender.close()": the link close
\* ended (ok or not); the close of a link that was not open resolves at once
closeDone(c, ok) ==
  /\ Running
  /\ UNCHANGED notSenderVars
  /\ pc[c] = "closing"
  /\ ok \/ hist[c].own
  /\ LET gone == IF hist[c].own THEN {callLink[c]} ELSE {}
     IN /\ linkState' = [l \in Links |-> IF l \in gone THEN "closed" ELSE linkState[l]]
        /\ handlers' = [l \in Links |-> IF l \in gone THEN {} ELSE handlers[l]]
        /\ outstanding' = [l \in Links |-> IF l \in gone THEN {} ELSE outstanding[l]]
        /\ callLink' = [d \in Calls |->
             IF callLink[d] \in gone /\ d # c THEN 0 ELSE callLink[d]]
  /\ pc' = [pc EXCEPT ![c] = "done"]
  /\ IF ok
     THEN /\ ctxSender' = FALSE
          /\ sender' = senderAfterClose
          /\ tokenRenewalTimer' = FALSE
          /\ outcome' = [outcome EXCEPT ![c] = "closed"]
          /\ hist' = [hist EXCEPT
               ![c].clears = @ + 1,
               ![c].changed = (sender # 0 \/ ctxSender \/ tokenRenewalTimer)]
          /\ prevClose' = IF prevClose # "closing" THEN "none"
                          ELSE IF tokenRenewalTimer THEN "cancelled" ELSE "noop"
          /\ afterClose' = TRUE
     ELSE /\ outcome' = [outcome EXCEPT ![c] = "closeError"]
          /\ sender' = senderAfterCloseError
          /\ hist' = [hist EXCEPT ![c].changed = (senderAfterCloseError # sender)]
          /\ prevClose' = IF prevClose = "closing" THEN "failed" ELSE "none"
          /\ UNCHANGED <<ctxSender, tokenRenewalTimer, afterClose>>
  /\ UNCHANGED <<timers, lockInit, retries>>

\* ------------------------------------------------------------------ Spec
\* The callers of the calls that ended take the results: a settled promise
\* runs its continuation before the event loop takes the next event.
returned ==
  /\ UNCHANGED notSenderVars
  /\ \E c \in Calls : pc[c] = "done"
  /\ pc' = [c \in Calls |-> IF pc[c] = "done" THEN "idle" ELSE pc[c]]
  /\ outcome' = [c \in Calls |-> IF pc[c] = "done" THEN "none" ELSE outcome[c]]
  /\ retries' = [c \in Calls |-> IF pc[c] = "done" THEN 0 ELSE retries[c]]
  /\ callLink' = [c \in Calls |-> IF pc[c] = "done" THEN 0 ELSE callLink[c]]
  /\ hist' = [c \in Calls |-> IF pc[c] = "done" THEN NoHist ELSE hist[c]]
  /\ UNCHANGED <<sender, ctxSender, linkState, handlers, outstanding, timers,
                 tokenRenewalTimer, lockInit, prevClose, afterClose>>

Next ==
  \/ \E c \in Calls, valid \in BOOLEAN, credit \in BOOLEAN : send(c, valid, credit)
  \/ \E c \in Calls, valid \in BOOLEAN, credit \in BOOLEAN : sendBatch(c, valid, credit)
  \/ \E c \in Calls, credit \in BOOLEAN : sendResume(c, credit)
  \/ \E k \in Keys, ok \in BOOLEAN : negotiateClaimDone(k, ok)
  \/ \E k \in Keys, ok \in BOOLEAN : createSenderDone(k, ok)
  \/ \E l \in Links, d \in Calls, ev \in SenderEvents, e \in BOOLEAN :
       disposition(l, d, ev, e)
  \/ \E c \in Calls : retry(c)
  \/ \E c \in Calls : close(c)
  \/ \E c \in Calls, ok \in BOOLEAN : closeDone(c, ok)
  \/ returned

Spec == Init /\ [][Next]_vars

\* ------------------------------------------------- SubscriptionClient.receive
\* Receiver.isOpen: derived from the state of the receiver's link
streamingIsOpen(r) == streamingLink[r] = "open"

\* StreamingReceiver.create: the receiver it makes
NewStreaming == CHOOSE r \in Receivers :
  streamingLink[r] = "none" /\ \A q \in Receivers : streamingLink[q] = "none" => r <= q

\* streaming receivers made by a receive call whose handle was not stopped
LiveHandles == {r \in Receivers : streamingLink[r] # "none" /\ ~stopped[r]}

\* a receive that hands the receiver no ceiling of its own client
rcvOptionsUnbounded == [maxConcurrentCalls |-> MaxMessages]

\* receive: the options it hands to StreamingReceiver.create
rcvOptions == [maxConcurrentCalls |-> maxConcurrentCalls]

\* SubscriptionClient.receive: synchronous; sReceiver.receive starts the opening
\* of the receiver's link
receive ==
  /\ UNCHANGED notRecvVars
  /\ UNCHANGED pullVars
  /\ UNCHANGED <<clientOptions, maxConcurrentCalls, inFlight>>
  /\ IF streamingReceiver = 0 \/ ~streamingIsOpen(streamingReceiver)
     THEN /\ \E r \in Receivers : streamingLink[r] = "none"
          /\ LET sReceiver == NewStreaming
             IN /\ streamingReceiver' = sReceiver
                /\ receiverCalls' = [receiverCalls EXCEPT ![sReceiver] =
                                       rcvOptions.maxConcurrentCalls]
                /\ streamingLink' = [streamingLink EXCEPT ![sReceiver] = "opening"]
                /\ lastReceive' = [result |-> "handle", live |-> LiveHandles # {},
                                   before |-> streamingReceiver, after |-> sReceiver]
     ELSE /\ lastReceive' = [result |-> "conflict", live |-> LiveHandles # {},
                             before |-> streamingReceiver, after |-> streamingReceiver]
          /\ UNCHANGED <<streamingReceiver, streamingLink, receiverCalls>>
  /\ UNCHANGED <<batchingReceiver, batchingLink, isReceivingMessages, stopped, delivered,
                 buffered, batchPc, batchOutcome, batchReceiver, batchHist>>

\* the opening of the link of streaming receiver r ends
streamingOpened(r, ok) ==
  /\ UNCHANGED notRecvVars
  /\ UNCHANGED pullVars
  /\ UNCHANGED concurrencyVars
  /\ streamingLink[r] = "opening"
  /\ streamingLink' = [streamingLink EXCEPT ![r] = IF ok THEN "open" ELSE "closed"]
  /\ UNCHANGED <<streamingReceiver, batchingReceiver, batchingLink, isReceivingMessages,
                 stopped, delivered, buffered, lastReceive, batchPc, batchOutcome,
                 batchReceiver, batchHist>>

\* a message arrives on the link of streaming receiver r, which holds one
\* credit per invocation it may still start: onMessage starts
onMessage(r) ==
  /\ UNCHANGED notRecvVars
  /\ UNCHANGED pullVars
  /\ UNCHANGED <<clientOptions, maxConcurrentCalls, receiverCalls>>
  /\ streamingLink[r] = "open"
  /\ delivered[r] < MaxMessages
  /\ inFlight[r] < receiverCalls[r]
  /\ delivered' = [delivered EXCEPT ![r] = @ + 1]
  /\ inFlight' = [inFlight EXCEPT ![r] = @ + 1]
  /\ UNCHANGED <<streamingReceiver, batchingReceiver, streamingLink, batchingLink,
                 isReceivingMessages, stopped, buffered, lastReceive, batchPc,
                 batchOutcome, batchReceiver, batchHist>>

\* an onMessage invocation of streaming receiver r completes (and its message
\* is settled): the receiver may start one more
onMessageDone(r) ==
  /\ UNCHANGED notRecvVars
  /\ UNCHANGED pullVars
  /\ UNCHANGED <<clientOptions, maxConcurrentCalls, receiverCalls>>
  /\ inFlight[r] > 0
  /\ inFlight' = [inFlight EXCEPT ![r] = @ - 1]
  /\ UNCHANGED <<streamingReceiver, batchingReceiver, streamingLink, batchingLink,
                 isReceivingMessages, stopped, delivered, buffered, lastReceive, batchPc,
                 batchOutcome, batchReceiver, batchHist>>

\* ReceiveHandler.stop of the handle of streaming receiver r: closes the link
stop(r) ==
  /\ UNCHANGED notRecvVars
  /\ UNCHANGED pullVars
  /\ UNCHANGED concurrencyVars
  /\ streamingLink[r] # "none"
  /\ ~stopped[r]
  /\ stopped' = [stopped EXCEPT ![r] = TRUE]
  /\ streamingLink' = [streamingLink EXCEPT ![r] = "closed"]
  /\ UNCHANGED <<streamingReceiver, batchingReceiver, batchingLink, isReceivingMessages,
                 delivered, buffered, lastReceive, batchPc, batchOutcome, batchReceiver,
                 batchHist>>

\* -------------------------------------------- SubscriptionClient.receiveBatch
batchingIsOpen(r) == batchingLink[r] = "open"

\* BatchingReceiver.create: the receiver it makes
NewBatching == CHOOSE r \in Receivers :
  batchingLink[r] = "none" /\ \A q \in Receivers : batchingLink[q] = "none" => r <= q

\* no ended receiveBatch call waits for its caller to take the result
BatchRunning == \A c \in BatchCalls : batchPc[c] # "done"

\* receiveBatch calls that have not returned
InFlight == {c \in BatchCalls : batchPc[c] = "awaitBatch"}

\* a receiveBatch that asks its receiver for one message more
receiveCountOneMore(maxMessageCount) == maxMessageCount + 1

\* receiveBatch: the count it hands to bReceiver.receive
receiveCount(maxMessageCount) == maxMessageCount

\* SubscriptionClient.receiveBatch up to "await bReceiver.receive(...)"; the
\* receiver's receive marks the pull as in progress and starts the opening of
\* its link
receiveBatch(c, maxMessageCount) ==
  /\ UNCHANGED notRecvVars
  /\ UNCHANGED batchResult
  /\ UNCHANGED concurrencyVars
  /\ BatchRunning
  /\ batchPc[c] = "idle"
  /\ \A d \in BatchCalls : d < c => batchPc[d] # "idle"
  /\ IF \/ batchingReceiver = 0
        \/ ~batchingIsOpen(batchingReceiver)
        \/ ~isReceivingMessages[batchingReceiver]
     THEN /\ \E r \in Receivers : batchingLink[r] = "none"
          /\ LET bReceiver == NewBatching
             IN /\ batchingReceiver' = bReceiver
                /\ batchingLink' = [batchingLink EXCEPT ![bReceiver] = "opening"]
                /\ isReceivingMessages' = [isReceivingMessages EXCEPT ![bReceiver] = TRUE]
                /\ batchReceiver' = [batchReceiver EXCEPT ![c] = bReceiver]
                /\ wanted' = [wanted EXCEPT ![bReceiver] = receiveCount(maxMessageCount)]
                /\ batchHist' = [batchHist EXCEPT ![c] =
                     [NoBatchHist EXCEPT !.inFlight = InFlight # {},
                                         !.before = batchingReceiver,
                                         !.after = bReceiver,
                                         !.asked = maxMessageCount]]
                /\ batchPc' = [batchPc EXCEPT ![c] = "awaitBatch"]
                /\ batchOutcome' = [batchOutcome EXCEPT ![c] = "pending"]
     ELSE /\ batchPc' = [batchPc EXCEPT ![c] = "done"]
          /\ batchOutcome' = [batchOutcome EXCEPT ![c] = "conflict"]
          /\ batchHist' = [batchHist EXCEPT ![c] =
               [NoBatchHist EXCEPT !.inFlight = InFlight # {},
                                   !.before = batchingReceiver,
                                   !.after = batchingReceiver,
                                   !.asked = maxMessageCount]]
          /\ UNCHANGED <<batchingReceiver, batchingLink, isReceivingMessages, batchReceiver,
                         wanted>>
  /\ UNCHANGED <<streamingReceiver, streamingLink, stopped, delivered, buffered, lastReceive>>

\* the opening of the link of batching receiver r ends; a failure rejects the
\* pull that waits on it
batchingOpened(r, ok) ==
  /\ UNCHANGED notRecvVars
  /\ UNCHANGED pullVars
  /\ UNCHANGED concurrencyVars
  /\ BatchRunning
  /\ batchingLink[r] = "opening"
  /\ IF ok
     THEN /\ batchingLink' = [batchingLink EXCEPT ![r] = "open"]
          /\ UNCHANGED <<isReceivingMessages, batchPc, batchOutcome>>
     ELSE /\ batchingLink' = [batchingLink EXCEPT ![r] = "closed"]
          /\ isReceivingMessages' = [isReceivingMessages EXCEPT ![r] = FALSE]
          /\ batchPc' = [c \in BatchCalls |->
               IF c \in InFlight /\ batchReceiver[c] = r THEN "done" ELSE batchPc[c]]
          /\ batchOutcome' = [c \in BatchCalls |->
               IF c \in InFlight /\ batchReceiver[c] = r THEN "error" ELSE batchOutcome[c]]
  /\ UNCHANGED <<streamingReceiver, batchingReceiver, streamingLink, stopped, delivered,
                 buffered, lastReceive, batchReceiver, batchHist>>

\* the calls that await the pull of batching receiver r
Pulling(r) == {c \in InFlight : batchReceiver[c] = r}

\* a message arrives on the link of batching receiver r during its pull,
\* which was granted one credit per message wanted; when the buffer holds
\* the count wanted, receive resolves with it and receiveBatch returns it
batchMessage(r) ==
  /\ UNCHANGED notRecvVars
  /\ UNCHANGED concurrencyVars
  /\ BatchRunning
  /\ batchingIsOpen(r)
  /\ isReceivingMessages[r]
  /\ buffered[r] < wanted[r]
  /\ IF buffered[r] + 1 = wanted[r]
     THEN /\ buffered' = [buffered EXCEPT ![r] = 0]
          /\ isReceivingMessages' = [isReceivingMessages EXCEPT ![r] = FALSE]
          /\ batchPc' = [c \in BatchCalls |-> IF c \in Pulling(r) THEN "done" ELSE batchPc[c]]
          /\ batchOutcome' = [c \in BatchCalls |->
               IF c \in Pulling(r) THEN "messages" ELSE batchOutcome[c]]
          /\ batchResult' = [c \in BatchCalls |->
               IF c \in Pulling(r) THEN buffered[r] + 1 ELSE batchResult[c]]
     ELSE /\ buffered' = [buffered EXCEPT ![r] = @ + 1]
          /\ UNCHANGED <<isReceivingMessages, batchPc, batchOutcome, batchResult>>
  /\ UNCHANGED <<streamingReceiver, batchingReceiver, streamingLink, batchingLink,
                 stopped, delivered, lastReceive, batchReceiver, batchHist, wanted>>

\* the deadline of the pull of call c elapses: bReceiver.receive resolves
\* with what the buffer holds and receiveBatch returns it
batchDone(c) ==
  /\ UNCHANGED notRecvVars
  /\ UNCHANGED concurrencyVars
  /\ BatchRunning
  /\ batchPc[c] = "awaitBatch"
  /\ batchingIsOpen(batchReceiver[c])
  /\ isReceivingMessages' = [isReceivingMessages EXCEPT ![batchReceiver[c]] = FALSE]
  /\ buffered' = [buffered EXCEPT ![batchReceiver[c]] = 0]
  /\ batchPc' = [batchPc EXCEPT ![c] = "done"]
  /\ batchOutcome' = [batchOutcome EXCEPT ![c] = "messages"]
  /\ batchResult' = [batchResult EXCEPT ![c] = buffered[batchReceiver[c]]]
  /\ batchHist' = [batchHist EXCEPT ![c].deadline = TRUE]
  /\ UNCHANGED <<streamingReceiver, batchingReceiver, streamingLink, batchingLink,
                 stopped, delivered, lastReceive, batchReceiver, wanted>>

\* the callers of the receiveBatch calls that ended take the results
batchReturned ==
  /\ UNCHANGED notRecvVars
  /\ UNCHANGED concurrencyVars
  /\ \E c \in BatchCalls : batchPc[c] = "done"
  /\ batchPc' = [c \in BatchCalls |-> IF batchPc[c] = "done" THEN "idle" ELSE batchPc[c]]
  /\ batchOutcome' = [c \in BatchCalls |->
       IF batchPc[c] = "done" THEN "none" ELSE batchOutcome[c]]
  /\ batchReceiver' = [c \in BatchCalls |->
       IF batchPc[c] = "done" THEN 0 ELSE batchReceiver[c]]
  /\ batchHist' = [c \in BatchCalls |->
       IF batchPc[c] = "done" THEN NoBatchHist ELSE batchHist[c]]
  /\ batchResult' = [c \in BatchCalls |->
       IF batchPc[c] = "done" THEN 0 ELSE batchResult[c]]
  /\ UNCHANGED <<streamingReceiver, batchingReceiver, streamingLink, batchingLink,
                 isReceivingMessages, stopped, delivered, buffered, lastReceive, wanted>>

NextRecv ==
  \/ receive
  \/ \E r \in Receivers, ok \in BOOLEAN : streamingOpened(r, ok)
  \/ \E r \in Receivers : onMessage(r)
  \/ \E r \in Receivers : onMessageDone(r)
  \/ \E r \in Receivers : stop(r)

\* a SubscriptionClient constructed with any options
InitRecv ==
  /\ InitCalls
  /\ \E options \in SubscriptionClientOptions : InitClient(options)
  /\ datas = <<>>
  /\ envelope = NoEnvelope

SpecRecv == InitRecv /\ [][NextRecv]_vars

NextBatch ==
  \/ \E c \in BatchCalls, maxMessageCount \in 1..MaxMessages :
       receiveBatch(c, maxMessageCount)
  \/ \E r \in Receivers, ok \in BOOLEAN : batchingOpened(r, ok)
  \/ \E r \in Receivers : batchMessage(r)
  \/ \E c \in BatchCalls : batchDone(c)
  \/ batchReturned

SpecBatch == Init /\ [][NextBatch]_vars

\* ---------------------------------------------------------- TopicClient
\* a create that constructs and registers a sender whatever the slot holds
createAlways == made + 1

\* MessageSender.create(context): the instance it returns
create == IF contextSender = 0 THEN made + 1 ELSE contextSender

\* the _init of instance i runs, holding the lock of the instance
initRunning(i) == instInit[i]

\* TopicClient.send and TopicClient.sendBatch up to the first await of
\* MessageSender.send / sendBatch: create registers the sender, and the
\* sender starts its _init under its lock when its link is not open and no
\* _init runs
topicCall ==
  /\ UNCHANGED notTopicVars
  /\ LET i == create
     IN /\ i \in Senders
        /\ contextSender' = i
        /\ made' = IF i > made THEN i ELSE made
        /\ lastWrite' = IF i # contextSender
                        THEN [kind |-> "create", old |-> contextSender,
                              locked |-> initRunning(i)]
                        ELSE lastWrite
        /\ instInit' = [instInit EXCEPT ![i] = @ \/ instLink[i] # "open"]
        /\ lastUse' = [prev |-> lastUse.now, now |-> i]
  /\ UNCHANGED <<instLink, closePending>>

topicSend == topicCall

topicSendBatch == topicCall

\* MessageSender._init of instance i ends: on success the instance holds the
\* new link and registers itself when the slot is empty
topicInitDone(i, ok) ==
  /\ UNCHANGED notTopicVars
  /\ instInit[i]
  /\ instInit' = [instInit EXCEPT ![i] = FALSE]
  /\ IF ok
     THEN /\ instLink' = [instLink EXCEPT ![i] = "open"]
          /\ contextSender' = IF contextSender = 0 THEN i ELSE contextSender
          /\ lastWrite' = IF contextSender = 0
                          THEN [kind |-> "init", old |-> contextSender,
                                locked |-> initRunning(i)]
                          ELSE lastWrite
     ELSE UNCHANGED <<instLink, contextSender, lastWrite>>
  /\ UNCHANGED <<made, closePending, lastUse>>

\* TopicClient.close up to "await this._sender.close()" of MessageSender.close
topicClose ==
  /\ UNCHANGED notTopicVars
  /\ contextSender # 0
  /\ LET i == contextSender
     IN IF instLink[i] = "none"
        THEN UNCHANGED <<instLink, closePending>>
        ELSE /\ closePending[i] < MaxCloses
             /\ closePending' = [closePending EXCEPT ![i] = @ + 1]
             /\ instLink' = [instLink EXCEPT ![i] = "closing"]
  /\ lastUse' = NoUse
  /\ UNCHANGED <<contextSender, made, instInit, lastWrite>>

\* MessageSender.close of instance i after "await this._sender.close()"
topicCloseDone(i) ==
  /\ UNCHANGED notTopicVars
  /\ closePending[i] > 0
  /\ closePending' = [closePending EXCEPT ![i] = @ - 1]
  /\ contextSender' = 0
  /\ instLink' = [instLink EXCEPT ![i] = "none"]
  /\ lastWrite' = [kind |-> "close", old |-> contextSender, locked |-> initRunning(i)]
  /\ lastUse' = NoUse
  /\ UNCHANGED <<made, instInit>>

NextTopic ==
  \/ topicSend
  \/ topicSendBatch
  \/ \E i \in Senders, ok \in BOOLEAN : topicInitDone(i, ok)
  \/ topicClose
  \/ \E i \in Senders : topicCloseDone(i)

SpecTopic == Init /\ [][NextTopic]_vars

\* ------------------------------------------- sendBatch: the envelope
\* Values of a message's sections. An absent section or property reads as
\* "undefined"; "0" stands for a value that is present and falsy (the number
\* 0, the empty string), "7" for one that is present and truthy. Annotations
\* and application properties are objects: present ones are truthy.
AnnotationValues == {"undefined", "high", "low"}
ApplicationValues == {"undefined", "app"}
PropertyValues == {"undefined", "0", "7"}
BodyValues == {"x", "y"}

\* the AMQP messages ServiceBusMessage.toAmqpMessage hands to sendBatch, with
\* group_sequence standing for the entries of messageProperties
AmqpMessages ==
  [message_annotations : AnnotationValues, application_properties : ApplicationValues,
   group_sequence : PropertyValues, body : BodyValues]

BatchInputs == UNION {[1..n -> AmqpMessages] : n \in 1..MaxBatch}

\* if (v): JavaScript's test of a value
Truthy(v) == v \notin {"undefined", "0"}

\* dataTransformer.encode(body)
encodeBody(b) == <<"amqp-value", b>>

\* message.encode(m)
encode(m) == <<"encoded", m>>

\* sendBatch: the message whose sections the envelope takes, messages[0]
sectionSource(messages) == messages[1]

\* sendBatch from the conversion of the messages to the envelope (batchMessage)
\* before its final encoding
buildEnvelope(ds) ==
  LET messages == [i \in 1..Len(ds) |-> [ds[i] EXCEPT !.body = encodeBody(@)]]
      first == sectionSource(messages)
  IN [built |-> TRUE,
      body |-> [i \in 1..Len(messages) |-> encode(messages[i])],
      message_annotations |->
        IF Truthy(first.message_annotations) THEN first.message_annotations
        ELSE "undefined",
      application_properties |->
        IF Truthy(first.application_properties) THEN first.application_properties
        ELSE "undefined",
      group_sequence |->
        IF Truthy(first.group_sequence) THEN first.group_sequence ELSE "undefined"]

\* sendBatch builds the envelope of the list it was given
sendBatchEnvelope ==
  /\ UNCHANGED notEnvelopeVars
  /\ ~envelope.built
  /\ envelope' = buildEnvelope(datas)
  /\ UNCHANGED datas

InitEnvelope ==
  /\ InitCalls
  /\ InitClient([maxConcurrentCalls |-> 0])
  /\ datas \in BatchInputs
  /\ envelope = NoEnvelope

NextEnvelope == sendBatchEnvelope

SpecEnvelope == InitEnvelope /\ [][NextEnvelope]_vars

\* -------------------------------------------------- SubscriptionClient.close
\* links of the receivers of the client that need the connection
LiveLinks ==
  {r \in Receivers : streamingLink[r] \in {"opening", "open"}}
    \cup {r \in Receivers : batchingLink[r] \in {"opening", "open"}}

\* what close awaits first when the connection is open
closeEntry == IF streamingReceiver # 0 THEN "closingReceiver" ELSE "closingSession"

\* SubscriptionClient.close up to its first await; open is what
\* "connection && connection.isOpen()" gives, a connection that is not open
\* carrying no link
subscriptionClose(open) ==
  /\ UNCHANGED notCloseVars
  /\ closeCall.pc = "idle"
  /\ ~open => LiveLinks = {}
  /\ closeCall' = [pc |-> IF open THEN closeEntry ELSE "done",
                   outcome |-> IF open THEN "pending" ELSE "closed",
                   open |-> open,
                   streaming |-> streamingReceiver,
                   batching |-> batchingReceiver,
                   session |-> managementSession,
                   log |-> <<>>]
  /\ UNCHANGED <<recvVars, managementSession>>

\* "await this._context.streamingReceiver.close()" ends: on success the link
\* of the receiver is closed and close goes on to the management session
receiverClosed(ok) ==
  /\ UNCHANGED notCloseVars
  /\ closeCall.pc = "closingReceiver"
  /\ IF ok
     THEN /\ streamingLink' = [streamingLink EXCEPT ![closeCall.streaming] = "closed"]
          /\ UNCHANGED batchingLink
          /\ closeCall' = [closeCall EXCEPT !.pc = "closingSession",
                                            !.log = Append(@, "streamingReceiver")]
     ELSE /\ closeCall' = [closeCall EXCEPT !.pc = "done", !.outcome = "error"]
          /\ UNCHANGED <<streamingLink, batchingLink>>
  /\ UNCHANGED <<streamingReceiver, batchingReceiver, isReceivingMessages, stopped,
                 delivered, buffered, lastReceive, batchPc, batchOutcome, batchReceiver,
                 batchHist, concurrencyVars, pullVars, managementSession>>

\* "await this._context.managementSession!.close()" ends
sessionClosed(ok) ==
  /\ UNCHANGED notCloseVars
  /\ closeCall.pc = "closingSession"
  /\ IF ok
     THEN /\ managementSession' = "closed"
          /\ UNCHANGED batchingLink
          /\ closeCall' = [closeCall EXCEPT !.pc = "done", !.outcome = "closed",
                                            !.log = Append(@, "managementSession")]
     ELSE /\ closeCall' = [closeCall EXCEPT !.pc = "done", !.outcome = "error"]
          /\ UNCHANGED <<managementSession, batchingLink>>
  /\ UNCHANGED <<streamingReceiver, batchingReceiver, streamingLink, isReceivingMessages,
                 stopped, delivered, buffered, lastReceive, batchPc, batchOutcome,
                 batchReceiver, batchHist, concurrencyVars, pullVars>>

\* the caller of close takes the result
closeReturned ==
  /\ UNCHANGED notCloseVars
  /\ closeCall.pc = "done"
  /\ closeCall' = NoClose
  /\ UNCHANGED <<recvVars, managementSession>>

NextClose ==
  \/ receive
  \/ \E r \in Receivers, ok \in BOOLEAN : streamingOpened(r, ok)
  \/ \E c \in BatchCalls, maxMessageCount \in 1..MaxMessages :
       receiveBatch(c, maxMessageCount)
  \/ \E r \in Receivers, ok \in BOOLEAN : batchingOpened(r, ok)
  \/ \E open \in BOOLEAN : subscriptionClose(open)
  \/ \E ok \in BOOLEAN : receiverClosed(ok)
  \/ \E ok \in BOOLEAN : sessionClosed(ok)
  \/ closeReturned

SpecClose == Init /\ [][NextClose]_vars

\* ===================================================================== claims
\* C1: concurrent send calls on a sender without an open link share one
\* initialization: at most one _init runs at any time, every call that waits
\* on the lock waits for a running _init, and the calls that wait together
\* resume together with the same result (all go on to send, or all fail with
\* the error of the initialization).
C1_SingleFlight ==
  /\ [](Cardinality(RunningInits) <= 1)
  /\ [](\A c \in Calls : pc[c] = "lockWait" => lockInit[senderLock(c)] # "none")
  /\ [][\A c, d \in Calls :
          pc[c] = "lockWait" /\ pc[d] = "lockWait"
            => pc'[c] = pc'[d] /\ outcome'[c] = outcome'[d]]_vars

\* two calls waited on one initialization and resumed on its open link
C1_Witness == isOpen /\ Cardinality({c \in Calls : pc[c] = "ready"}) >= 2

\* C2: a send whose delivery was issued on the link is settled by the first
\* disposition that fires its handlers: from then on its promise is not
\* pending, its handlers are gone from every link (no later disposition fires
\* them again), and its handlers were registered once.
C2_SettledOnce ==
  \A c \in Calls : hist[c].fired >= 1 =>
    /\ outcome[c] # "pending"
    /\ hist[c].fired = 1
    /\ hist[c].regs = 1
    /\ \A l \in Links, e \in SenderEvents : <<c, e>> \notin handlers[l]

\* C3: at most one send link of the instance is open, counting the links the
\* instance opened and no longer refers to.
C3_OneOpenLink == Cardinality(OpenLinks) <= 1

\* C4: a receive call made while the handle of an earlier receive call was
\* not stopped ends in the conflict error and leaves the context's streaming
\* receiver as it was.
C4_ReceiveConflict ==
  lastReceive.live =>
    lastReceive.result = "conflict" /\ lastReceive.after = lastReceive.before

\* C5: a receiveBatch call made while an earlier receiveBatch call has not
\* returned is rejected and leaves the context's batching receiver as it was.
C5_BatchConflict ==
  \A c \in BatchCalls : batchHist[c].inFlight =>
    batchOutcome[c] = "conflict" /\ batchHist[c].after = batchHist[c].before

\* C6: a close that directly follows a close that resolved (no other call in
\* between or in progress) resolves without error at once, does not cancel
\* the timer again, and changes neither the sender's link reference nor the
\* context slot nor the timer.
C6_SecondCloseNoop ==
  \A c \in Calls : hist[c].after \in {"cancelled", "noop"} =>
    /\ pc[c] = "done"
    /\ outcome[c] = "closed"
    /\ hist[c].clears = 0
    /\ ~hist[c].changed

\* a close resolved right after a close that cancelled the pending timer
C6_Witness == \E c \in Calls : hist[c].after = "cancelled" /\ outcome[c] = "closed"

\* C7: once a close has resolved, and until the next send is called, no
\* renewal timer of the sender is pending and no link of the sender is open.
C7_AfterClose == afterClose => ~PendingTimers /\ OpenLinks = {}

\* C8: no send stays pending on a link that a close has closed: a send that
\* awaits its disposition awaits it on a link that still exists.
C8_NoHang == \A c \in Calls : pc[c] = "awaitDisposition" => callLink[c] # 0

\* C9: every attempt of the retry policy after the first makes a new delivery
\* attempt: a call that is at its n-th attempt has run the delivery n times.
C9_NewAttempt == \A c \in Calls : retries[c] >= 2 => hist[c].execs >= retries[c]

\* C10: a delivery attempt that finds the link without credit fails at once
\* with the try-later error, registers no handler and hands no message to the
\* link.
C10_NoCredit ==
  \A c \in Calls : hist[c].credit = "no" =>
    /\ outcome[c] = "tryLater"
    /\ pc[c] \in {"retry", "done"}
    /\ hist[c].regs = 0
    /\ \A l \in Links : c \notin outstanding[l]
    /\ \A l \in Links, e \in SenderEvents : <<c, e>> \notin handlers[l]

\* an attempt found the open link without credit and failed
C10_Witness ==
  \E c \in Calls : hist[c].credit = "no" /\ outcome[c] = "tryLater" /\ isOpen

\* C11: a send or sendBatch whose link-open failed ends with the error of the
\* initialization: it made no delivery attempt and registered nothing, the
\* sender holds no open link, and the lock is released (no initializer runs
\* under the sender's key), so that the next send starts a new one.
C11_InitError ==
  \A c \in Calls : outcome[c] = "initError" =>
    /\ pc[c] = "done"
    /\ hist[c].execs = 0
    /\ hist[c].regs = 0
    /\ ~isOpen
    /\ lockInit[senderLock(c)] = "none"

\* two calls waited on one initialization and both got its error
C11_Witness == \A c \in Calls : outcome[c] = "initError"

\* C12: MessageSender.create never replaces a registered sender (a write to
\* the slot by create or by _init finds the slot empty), and two successive
\* TopicClient.send / sendBatch calls with no close called or completed in
\* between use the same MessageSender instance.
C12_SameSender ==
  /\ lastWrite.kind \in {"create", "init"} => lastWrite.old = 0
  /\ lastUse.prev # 0 => lastUse.now = lastUse.prev

\* two successive sends used the second instance the client made
C12_Witness == lastUse.prev = 2 /\ lastUse.now = 2 /\ contextSender = 2

\* C13: every write to the context's sender slot is a clearing by close or
\* happens while the initialization lock of the sender is held.
C13_SlotWrites ==
  lastWrite.kind # "none" => lastWrite.kind = "close" \/ lastWrite.locked

\* C14: the envelope sendBatch builds carries exactly the message
\* annotations, the application properties and the message properties of the
\* first message, and its body holds the encodings of all messages, each
\* encoded on its own, in input order.
C14_Envelope ==
  envelope.built =>
    /\ envelope.message_annotations = datas[1].message_annotations
    /\ envelope.application_properties = datas[1].application_properties
    /\ envelope.group_sequence = datas[1].group_sequence
    /\ Len(envelope.body) = Len(datas)
    /\ \A i \in 1..Len(datas) :
         envelope.body[i] = encode([datas[i] EXCEPT !.body = encodeBody(@)])

\* C15: a streaming receiver never has more onMessage invocations in progress
\* than the maxConcurrentCalls of its client, which is the value the client
\* was configured with, or 1 when none was given; the receiver was handed
\* that value by receive.
C15_Ceiling ==
  /\ maxConcurrentCalls =
       (IF clientOptions.maxConcurrentCalls = 0 THEN 1
        ELSE clientOptions.maxConcurrentCalls)
  /\ \A r \in Receivers :
       /\ inFlight[r] <= maxConcurrentCalls
       /\ streamingLink[r] # "none" => receiverCalls[r] = maxConcurrentCalls

\* a receiver of a client configured without a ceiling started a second
\* invocation after its first completed, and that one is in progress
C15_Witness ==
  /\ clientOptions.maxConcurrentCalls = 0
  /\ \E r \in Receivers : delivered[r] = 2 /\ inFlight[r] = 1

\* C16: a receiveBatch call that returns messages returns at most the count
\* it asked for, and fewer only when its deadline elapsed; while it waits
\* before the deadline the buffer of its receiver holds fewer messages than
\* it asked for (a full buffer ends the call at once).
C16_BatchRace ==
  \A c \in BatchCalls :
    /\ batchOutcome[c] = "messages" =>
         /\ batchResult[c] <= batchHist[c].asked
         /\ batchResult[c] = batchHist[c].asked \/ batchHist[c].deadline
    /\ c \in InFlight => buffered[batchReceiver[c]] < batchHist[c].asked

\* a call that asked for two messages returned the one that had arrived when
\* its deadline elapsed
C16_Witness ==
  \E c \in BatchCalls :
    /\ batchOutcome[c] = "messages"
    /\ batchHist[c].asked = 2
    /\ batchResult[c] = 1
    /\ batchHist[c].deadline

\* C17: a send call that a disposition event settled has the outcome that the
\* event determines: accepted resolves it, rejected fails it with the error the
\* remote reported, released and modified fail it with the remote error when
\* the event carries one and with the error naming the release or the
\* modification otherwise. (Whose delivery the event was about is C19.)
C17_ByDisposition ==
  \A c \in Calls :
    /\ hist[c].ev = "accepted" => outcome[c] = "accepted"
    /\ hist[c].ev = "rejected" => outcome[c] = "remoteError"
    /\ hist[c].ev = "released" =>
         outcome[c] = IF hist[c].remote THEN "remoteError" ELSE "releasedError"
    /\ hist[c].ev = "modified" =>
         outcome[c] = IF hist[c].remote THEN "remoteError" ELSE "modifiedError"
    /\ outcome[c] \in {"accepted", "remoteError", "releasedError", "modifiedError"}
         => hist[c].ev # "none"

\* a released disposition without an error and a modified disposition with one
\* each settled a send call
C17_Witness ==
  /\ \E c \in Calls : hist[c].ev = "released" /\ ~hist[c].remote
                      /\ outcome[c] = "releasedError"
  /\ \E c \in Calls : hist[c].ev = "modified" /\ hist[c].remote
                      /\ outcome[c] = "remoteError"

\* C18: a disposition that fires the handlers of a send removes the four
\* handlers the send registered from the link, and handlers do not
\* accumulate: a link on which every delivery received its disposition holds
\* no disposition handler.
C18_HandlersRemoved ==
  /\ \A c \in Calls : hist[c].fired >= 1 =>
       \A l \in Links, e \in SenderEvents : <<c, e>> \notin handlers[l]
  /\ \A l \in Links : outstanding[l] = {} => handlers[l] = {}

\* C19: a disposition event settles only the send call that issued the
\* delivery the event is about: a call that a disposition settled was settled
\* by the disposition of its own delivery.
C19_OwnDisposition ==
  \A c \in Calls : hist[c].ev # "none" => hist[c].by = c

\* C20: whenever send or sendBatch reaches the delivery attempt, the sender
\* holds a link that is set and open, whatever close calls run beside it.
C20_LinkAtAttempt ==
  \A c \in Calls : hist[c].execs >= 1 => hist[c].at = "open"

\* C21: in one entity context at most one MessageSender instance holds an
\* open link, and an instance that holds an open link is the one the
\* context's sender slot refers to.
C21_OneLiveSender ==
  LET live == {i \in Senders : instLink[i] = "open"}
  IN /\ Cardinality(live) <= 1
     /\ \A i \in live : contextSender = i

\* C22: a close whose link close failed ends with that error and changed
\* neither the sender's link reference nor the context slot nor the renewal
\* timer; the close that follows it (no other call in between or in progress)
\* goes to the link close again instead of returning at once.
C22_CloseError ==
  \A c \in Calls :
    /\ outcome[c] = "closeError" =>
         /\ pc[c] = "done"
         /\ ~hist[c].changed
         /\ hist[c].clears = 0
    /\ hist[c].after = "failed" =>
         pc[c] = "closing" \/ hist[c].clears = 1 \/ outcome[c] = "closeError"

\* a close was called right after a close that failed and awaits the link close
C22_Witness ==
  \E c \in Calls : hist[c].after = "failed" /\ pc[c] = "closing" /\ sender # 0

\* C23: a send or sendBatch whose argument fails the check ends with the
\* data error before the lock is taken: it starts no initialization, makes no
\* delivery attempt, registers nothing, and the step leaves the link
\* reference, the context slot, the links, the handlers, the timers and the
\* lock as they were.
C23_DataError ==
  /\ [](\A c \in Calls : hist[c].valid = "no" =>
          /\ pc[c] = "done"
          /\ outcome[c] = "dataError"
          /\ hist[c].execs = 0
          /\ hist[c].regs = 0
          /\ \A l \in Links : c \notin outstanding[l]
          /\ \A l \in Links, e \in SenderEvents : <<c, e>> \notin handlers[l])
  /\ [][\A c \in Calls :
          hist[c].valid # "no" /\ hist'[c].valid = "no" =>
            UNCHANGED <<sender, ctxSender, linkState, handlers, outstanding,
                        timers, tokenRenewalTimer, lockInit>>]_vars

\* a call with a bad argument ended with the data error on a sender that holds
\* no open link, where a valid call would have taken the lock
C23_Witness ==
  \E c \in Calls : hist[c].valid = "no" /\ outcome[c] = "dataError" /\ ~isOpen

\* C24: when SubscriptionClient.close has resolved on an open connection, the
\* streaming receiver and the batching receiver that the context held when
\* close was called are closed, and the streaming receiver was closed before
\* the management session; on a connection that is not open close resolves
\* having closed nothing.
C24_CloseAll ==
  closeCall.pc = "done" /\ closeCall.outcome = "closed" =>
    IF closeCall.open
    THEN /\ closeCall.streaming # 0 =>
              /\ streamingLink[closeCall.streaming] = "closed"
              /\ closeCall.log = <<"streamingReceiver", "managementSession">>
         /\ closeCall.streaming = 0 => closeCall.log = <<"managementSession">>
         /\ closeCall.batching # 0 => batchingLink[closeCall.batching] = "closed"
         /\ managementSession = "closed"
    ELSE /\ closeCall.log = <<>>
         /\ managementSession = closeCall.session

====
